---- MODULE Spec2Model ----
(***************************************************************************)
(* Model of src/gren.js (github-release-notes): the block synthesis        *)
(* pipeline, the release synchronizer and the changelog flow.              *)
(*                                                                         *)
(* Conventions.  A JavaScript value that may be null/undefined is an       *)
(* option: <<>> is null/undefined, <<v>> is the value v.  Text is a        *)
(* sequence of tokens, so that string concatenation is \o and join()       *)
(* interleaves the separator.  Dates are integer timestamps; new Date(0)   *)
(* is 0 and every commit date of the repository is positive.               *)
(***************************************************************************)
EXTENDS Integers, Sequences, FiniteSets, TLC

VARIABLES
    opts,         \* gren.options
    arg,          \* the argument of the function call under study
    ret,          \* its return value (or the exception it threw)
    upc,          \* "called" before the call returns, "returned" after
    command,      \* the public method that was invoked: "release", "changelog"
    pc,           \* the step of the promise chain the run waits in
    outcome,      \* how the promise of the run settled, and with what
    repo,         \* what the GitHub API answers: tags, releases, commits, issues
    fs,           \* the changelog file: exists, written content
    unhandled,    \* a rejected promise nobody handles is pending
    pending,      \* indices of the Promise.all members still in flight
    tagDates,     \* results of getTagDates, by position; Null until resolved
    rangeList,    \* result of createReleaseRanges
    blockList,    \* the blocks, by position; Null until the member resolves
    results,      \* what the changelog flow renders: blocks or releases
    handed,       \* the blocks handed to prepareRelease, in order
    skipped,      \* the releases for which the skip warning was printed
    apiLog        \* the API calls issued, in order

unitVars == <<arg, ret, upc>>
runVars == <<command, pc, outcome, repo, fs, unhandled, pending, tagDates, rangeList,
             blockList, results>>
syncVars == <<handed, skipped, apiLog>>
vars == <<opts, unitVars, runVars, syncVars>>

(***************************************************************************)
(* Bounds of the model                                                     *)
(***************************************************************************)
MaxPoints == 3
MaxDate == 3
MaxTags == 3

\* the name of the k-th tag of the repository, oldest first
TagName(k) == "v" \o ToString(k)

TagNames == {TagName(k) : k \in 1..MaxPoints}

(***************************************************************************)
(* Generic helpers                                                         *)
(***************************************************************************)
Null == <<>>
Some(v) == <<v>>

\* JavaScript truthiness of an optional number: null, undefined and 0 are falsy
Truthy(v) == v # Null /\ v # Some(0)

Range(s) == {s[i] : i \in 1..Len(s)}

IndexOf(s, v) == IF \E i \in 1..Len(s) : s[i] = v
                 THEN (CHOOSE i \in 1..Len(s) : s[i] = v /\ \A j \in 1..(i - 1) : s[j] # v) - 1
                 ELSE -1

\* Array.prototype.slice(from, to) with 0-based, non-negative, exclusive `to`
Slice(s, from, to) ==
    LET hi == IF to > Len(s) THEN Len(s) ELSE to
    IN  IF from >= hi THEN <<>> ELSE SubSeq(s, from + 1, hi)

\* sequences over S without repeated elements, of length 0..n
RECURSIVE DistinctSeqs(_, _)
DistinctSeqs(S, n) ==
    IF n = 0 THEN {<<>>}
    ELSE LET shorter == DistinctSeqs(S, n - 1)
         IN  shorter \cup UNION {{Append(s, x) : x \in S \ Range(s)} :
                                      s \in {t \in shorter : Len(t) = n - 1}}

\* sequences over S of length 0..n
RECURSIVE SeqsUpTo(_, _)
SeqsUpTo(S, n) ==
    IF n = 0 THEN {<<>>}
    ELSE LET shorter == SeqsUpTo(S, n - 1)
         IN  shorter \cup {Append(s, x) : s \in {t \in shorter : Len(t) = n - 1}, x \in S}

\* the options the source declares as defaults
defaults == [
    tags             |-> <<>>,
    dataSource       |-> "issues",
    onlyMilestones   |-> FALSE,
    draft            |-> FALSE,
    prefix           |-> <<>>,
    includeMessages  |-> "commits",
    prerelease       |-> FALSE,
    milestoneMatch   |-> <<"Release ", "{{tag_name}}">>,
    dateZero         |-> 0,
    generate         |-> FALSE,
    override         |-> FALSE,
    ignoreLabels     |-> <<>>,
    ignoreIssuesWith |-> <<>>,
    groupBy          |-> [kind |-> "false", mapping |-> <<>>],
    noLabel          |-> <<>>
]

(***************************************************************************)
(* Template Renderer                                                       *)
(***************************************************************************)
RECURSIVE Flatten(_)
Flatten(ss) == IF ss = <<>> THEN <<>> ELSE Head(ss) \o Flatten(Tail(ss))

\* Array.prototype.join over pieces of text
RECURSIVE join(_, _)
join(lines, sep) ==
    IF lines = <<>> THEN <<>>
    ELSE IF Len(lines) = 1 THEN lines[1]
         ELSE lines[1] \o sep \o join(Tail(lines), sep)

\* the template strings of the options (template.commit, template.label, ...)
template == [
    commit           |-> <<"- ", "{{message}}">>,
    label            |-> <<"[", "{{label}}", "]">>,
    issue            |-> <<"- ", "{{labels}}", " ", "{{name}}", " ", "{{text}}", " ", "{{url}}">>,
    group            |-> <<"#### ", "{{heading}}">>,
    release          |-> <<"## ", "{{release}}", " (", "{{date}}", ")", "\n", "{{body}}">>,
    releaseSeparator |-> <<"\n", "---", "\n">>,
    changelogTitle   |-> <<"# Changelog", "\n">>
]

\* template.generate: one pass that replaces each {{key}} of the template by
\* the context's value; other placeholders stay verbatim
generate(context, tpl) ==
    Flatten([i \in 1..Len(tpl) |->
        IF \E k \in DOMAIN context : tpl[i] = "{{" \o k \o "}}"
        THEN context[CHOOSE k \in DOMAIN context : tpl[i] = "{{" \o k \o "}}"]
        ELSE <<tpl[i]>>])

(***************************************************************************)
(* Commit bodies                                                           *)
(***************************************************************************)
\* String.prototype.toLowerCase on one character of the message alphabet
toLower(c) == CASE c = "M" -> "m" [] c = "E" -> "e" [] c = "R" -> "r" [] c = "G" -> "g"
                [] OTHER -> c

\* message.match(/^merge/i); a message is a sequence of characters
matchMerge(message) ==
    LET word == <<"m", "e", "r", "g", "e">>
    IN  /\ Len(message) >= Len(word)
        /\ \A i \in 1..Len(word) : toLower(message[i]) = word[i]

\* the filter callback of generateCommitsBody: filterMap[messageType], or
\* filterMap.commits when the type is not a key of filterMap
includeMessage(messageType, message) ==
    CASE messageType = "merges"  -> matchMerge(message)
      [] messageType = "commits" -> ~matchMerge(message)
      [] messageType = "all"     -> TRUE
      [] OTHER                   -> ~matchMerge(message)

templateCommits(message) == generate([message |-> <<message>>], template.commit)

\* the messages left without the sentinel pushed after a single message
eligibleMessages_noSentinel(messages) ==
    IF messages = <<>> THEN <<>> ELSE SubSeq(messages, 1, Len(messages) - 1)

\* messages.length === 1 && messages.push(null); messages.slice(0, -1).
\* An element is Some(message), the pushed null is Null.
eligibleMessages(messages) ==
    LET pushed == IF Len(messages) = 1 THEN Append(messages, Null) ELSE messages
    IN  IF pushed = <<>> THEN <<>> ELSE SubSeq(pushed, 1, Len(pushed) - 1)

generateCommitsBody(options, messages) ==
    LET kept == SelectSeq(eligibleMessages(messages),
                          LAMBDA m : includeMessage(options.includeMessages, m[1]))
    IN  join([i \in 1..Len(kept) |-> templateCommits(kept[i][1])], <<"\n">>)

(***************************************************************************)
(* Issue pre-filter                                                        *)
(***************************************************************************)
\* ignoreLabels.reduce(... carry && labels.indexOf(ignoredLabel) === -1, true)
RECURSIVE compareIssueLabels(_, _)
compareIssueLabels(ignoreLabels, labels) ==
    IF ignoreLabels = <<>> THEN TRUE
    ELSE /\ compareIssueLabels(SubSeq(ignoreLabels, 1, Len(ignoreLabels) - 1), labels)
         /\ IndexOf(labels, ignoreLabels[Len(ignoreLabels)]) = -1

filterIssue(options, issue) ==
    /\ ~issue.pull_request
    /\ compareIssueLabels(options.ignoreIssuesWith, issue.labels)
    /\ ~(options.onlyMilestones \/ (options.dataSource = "milestones" /\ issue.milestone = Null))

(***************************************************************************)
(* Content Grouper                                                         *)
(***************************************************************************)
\* if (!issue.labels.length && template.noLabel) issue.labels.push({name: noLabel}).
\* The push changes the issue object itself; every reader of issue.labels
\* (templateLabels, groupByLabel, groupBy) applies it first and it is
\* idempotent, so it is modelled where the labels are read.
pushNoLabel(options, issue) ==
    IF issue.labels = <<>> /\ options.noLabel # Null
    THEN [issue EXCEPT !.labels = <<options.noLabel[1]>>]
    ELSE issue

templateLabels(options, issue) ==
    LET labelled == pushNoLabel(options, issue)
        shown == SelectSeq(labelled.labels, LAMBDA l : IndexOf(options.ignoreLabels, l) = -1)
    IN  join([i \in 1..Len(shown) |-> generate([label |-> <<shown[i]>>], template.label)], <<>>)

templateIssue(options, issue) ==
    generate([labels |-> templateLabels(options, issue),
              name   |-> <<issue.title>>,
              text   |-> <<"#" \o ToString(issue.number)>>,
              url    |-> <<issue.html_url>>], template.issue)

\* groups is the sequence of [group, items] entries in key order of the object
templateGroups(groups) ==
    [i \in 1..Len(groups) |->
        generate([heading |-> <<groups[i].group>>], template.group)
            \o <<"\n">> \o join(groups[i].items, <<"\n">>)]

\* the order of the label names as strings (String comparison of utils.sortObject)
LabelOrder == <<"...", "bug", "docs", "length", "misc", "wontfix">>

RECURSIVE insertByKey(_, _)
insertByKey(sorted, g) ==
    IF sorted = <<>> THEN <<g>>
    ELSE IF IndexOf(LabelOrder, g.group) < IndexOf(LabelOrder, Head(sorted).group)
         THEN <<g>> \o sorted
         ELSE <<Head(sorted)>> \o insertByKey(Tail(sorted), g)

\* utils.sortObject: the entries of the object ordered by key
RECURSIVE sortObject(_)
sortObject(groups) ==
    IF groups = <<>> THEN <<>>
    ELSE insertByKey(sortObject(SubSeq(groups, 1, Len(groups) - 1)), groups[Len(groups)])

\* groups[labelName].push(item), creating the entry when it is missing
pushToGroup(groups, labelName, item) ==
    IF \E i \in 1..Len(groups) : groups[i].group = labelName
    THEN [i \in 1..Len(groups) |->
            IF groups[i].group = labelName
            THEN [groups[i] EXCEPT !.items = Append(@, item)]
            ELSE groups[i]]
    ELSE Append(groups, [group |-> labelName, items |-> <<item>>])

\* var groups = []: groups[labelName] of a label named like a member of
\* Array.prototype is that member (for "length", the number the array keeps
\* there), and calling .push on it throws a TypeError
ArrayMembers == {"length", "push", "filter"}

\* the forEach of groupByLabel; reading issue.labels[0].name of an issue
\* without labels throws a TypeError, and so does the push into a group
\* named like a member of the array
RECURSIVE labelGroups(_, _)
labelGroups(options, issues) ==
    IF issues = <<>> THEN [threw |-> FALSE, groups |-> <<>>]
    ELSE LET before == labelGroups(options, SubSeq(issues, 1, Len(issues) - 1))
             issue == pushNoLabel(options, issues[Len(issues)])
         IN  IF before.threw \/ issue.labels = <<>> \/ issue.labels[1] \in ArrayMembers
             THEN [threw |-> TRUE, groups |-> <<>>]
             ELSE [threw |-> FALSE,
                   groups |-> pushToGroup(before.groups, issue.labels[1],
                                          templateIssue(options, issue))]

groupByLabel(options, issues) ==
    LET built == labelGroups(options, issues)
    IN  IF built.threw
        THEN [threw |-> TRUE, error |-> "TypeError", groups |-> <<>>, value |-> <<>>]
        ELSE [threw |-> FALSE, error |-> "", groups |-> sortObject(built.groups),
              value |-> templateGroups(sortObject(built.groups))]

\* Object.keys(groupBy).reduce(carry.concat(groupBy[group]), [])
allLabelsOf(mapping) == Flatten([i \in 1..Len(mapping) |-> mapping[i].labels])

\* the callback of issue.labels.some(...) in groupBy
labelInGroup(groupLabels, allLabels, label) ==
    LET isOtherLabel == IndexOf(groupLabels, "...") # -1 /\ IndexOf(allLabels, label) = -1
    IN  IndexOf(groupLabels, label) # -1 \/ isOtherLabel

\* the reduce over the groups of the mapping: a group with no issue is left out
customGroups(options, issues) ==
    LET mapping == options.groupBy.mapping
        allLabels == allLabelsOf(mapping)
        groupIssues(g) ==
            LET picked == SelectSeq(issues, LAMBDA issue :
                              \E k \in 1..Len(pushNoLabel(options, issue).labels) :
                                  labelInGroup(g.labels, allLabels,
                                               pushNoLabel(options, issue).labels[k]))
            IN  [i \in 1..Len(picked) |-> templateIssue(options, picked[i])]
        kept == SelectSeq(mapping, LAMBDA g : groupIssues(g) # <<>>)
    IN  [i \in 1..Len(kept) |-> [group |-> kept[i].group, items |-> groupIssues(kept[i])]]

groupBy(options, issues) ==
    CASE options.groupBy.kind = "false" ->
            [threw |-> FALSE, error |-> "", groups |-> <<>>,
             value |-> [i \in 1..Len(issues) |-> templateIssue(options, issues[i])]]
      [] options.groupBy.kind = "label" -> groupByLabel(options, issues)
      [] options.groupBy.kind = "object" ->
            [threw |-> FALSE, error |-> "", groups |-> customGroups(options, issues),
             value |-> templateGroups(customGroups(options, issues))]
      [] OTHER ->
            [threw |-> TRUE, error |-> "InvalidGroupSpec", groups |-> <<>>, value |-> <<>>]

(***************************************************************************)
(* Date Range Builder                                                      *)
(***************************************************************************)
\* the comparator with its operands exchanged (oldest first)
compareByDate_ascending(release1, release2) == release1.date - release2.date

\* comparator of sortReleasesByDate: negative when release2 sorts after release1
compareByDate(release1, release2) == release2.date - release1.date

\* Array.prototype.sort with that comparator: a stable insertion of each
\* element after every element it does not precede
RECURSIVE insertSorted(_, _)
insertSorted(sorted, p) ==
    IF sorted = <<>> THEN <<p>>
    ELSE IF compareByDate(Head(sorted), p) > 0
         THEN <<p>> \o sorted
         ELSE <<Head(sorted)>> \o insertSorted(Tail(sorted), p)

RECURSIVE sortReleasesByDate(_)
sortReleasesByDate(releaseDates) ==
    IF releaseDates = <<>> THEN <<>>
    ELSE insertSorted(sortReleasesByDate(SubSeq(releaseDates, 1, Len(releaseDates) - 1)),
                      releaseDates[Len(releaseDates)])

\* a synthetic point that carries no release id
syntheticPoint_nullId == [id |-> Null, name |-> Null, date |-> 0]

\* the synthetic point pushed for a single release date: {id: 0, date: new Date(0)}
syntheticPoint == [id |-> Some(0), name |-> Null, date |-> 0]

createReleaseRanges(releaseDates) ==
    LET range == 2
        sorted0 == sortReleasesByDate(releaseDates)
        sortedReleaseDates == IF Len(sorted0) = 1
                              THEN Append(sorted0, syntheticPoint)
                              ELSE sorted0
    IN  [i \in 1..(IF Len(sortedReleaseDates) = 0 THEN 0 ELSE Len(sortedReleaseDates) - 1) |->
            Slice(sortedReleaseDates, i - 1, i - 1 + range)]

(***************************************************************************)
(* Tag/Release Selector                                                    *)
(***************************************************************************)
\* the filter callback without the push of the successor's name
RECURSIVE selectFrom_noSuccessor(_, _, _)
selectFrom_noSuccessor(tags, i, selectedTags) ==
    IF i > Len(tags) THEN <<>>
    ELSE (IF IndexOf(selectedTags, tags[i].name) # -1 THEN <<tags[i]>> ELSE <<>>)
             \o selectFrom_noSuccessor(tags, i + 1, selectedTags)

\* the filter callback of getSelectedTags run from index i (1-based) on;
\* selectedTags grows by the successor's name while it holds a single name
RECURSIVE selectFrom(_, _, _)
selectFrom(tags, i, selectedTags) ==
    IF i > Len(tags) THEN <<>>
    ELSE LET isSelectedTag == IndexOf(selectedTags, tags[i].name) # -1
             grown == IF isSelectedTag /\ Len(selectedTags) = 1 /\ i + 1 <= Len(tags)
                      THEN Append(selectedTags, tags[i + 1].name)
                      ELSE selectedTags
         IN  (IF isSelectedTag THEN <<tags[i]>> ELSE <<>>) \o selectFrom(tags, i + 1, grown)

\* returns Null for `false`, Some(list) for an array
getSelectedTags(optionTags, tags) ==
    IF IndexOf(optionTags, "all") >= 0 THEN Some(tags)
    ELSE IF Len(optionTags) = 0 THEN Null
         ELSE Some(Slice(selectFrom(tags, 1, optionTags), 0, 2))

\* the value getLastTags resolves with; releases is the list of releases
\* (an empty list acts as `false`: no tag gets a release id)
getLastTags(options, tags, releases) ==
    LET selected == getSelectedTags(options.tags, tags)
        chosen == IF selected # Null THEN selected[1] ELSE Slice(tags, 0, 2)
        releaseIdOf(tag) ==
            LET tagReleases == SelectSeq(releases, LAMBDA r : r.tag_name = tag.name)
            IN  IF tagReleases = <<>> THEN Null ELSE Some(tagReleases[1].id)
    IN  [i \in 1..Len(chosen) |-> [tag |-> chosen[i], releaseId |-> releaseIdOf(chosen[i])]]

\* the object one member of getTagDates resolves with, given the commit of the tag
tagDate(tag, commit) ==
    [id |-> tag.releaseId, name |-> Some(tag.tag.name), date |-> commit.date]

\* reading point.body: the objects built by getTagDates have no such property
bodyOf(point) == IF "body" \in DOMAIN point THEN point.body ELSE Null

(***************************************************************************)
(* Block Synthesizer                                                       *)
(***************************************************************************)
\* gren.repo.listCommits({since, until}): the messages of the commits whose
\* date lies between the two dates, newest first
listCommits(commits, since, until) ==
    LET inside == SelectSeq(commits, LAMBDA c : since <= c.date /\ c.date <= until)
    IN  [i \in 1..Len(inside) |-> Some(inside[i].message)]

\* the block getCommitBlocks builds for one range from its commit messages
commitBlock(options, range, messages) ==
    [id           |-> range[1].id,
     name         |-> options.prefix \o range[1].name,
     release      |-> range[1].name,
     published_at |-> range[1].date,
     body         |-> generateCommitsBody(options, messages) \o <<"\n">>]

\* utils.isInRange: inclusive at both ends
isInRange(value, min, max) == min <= value /\ value <= max

\* milestoneMatch.replace('{{tag_name}}', name): the first occurrence only
replaceTagName(milestoneMatch, name) ==
    LET at == IndexOf(milestoneMatch, "{{tag_name}}")
    IN  IF at = -1 THEN milestoneMatch
        ELSE [i \in 1..Len(milestoneMatch) |-> IF i = at + 1 THEN name ELSE milestoneMatch[i]]

filterBlockIssue(options, range, issue) ==
    IF options.dataSource = "milestones"
    THEN replaceTagName(options.milestoneMatch, range[1].name[1]) = issue.milestone[1]
    ELSE isInRange(issue.closed_at, range[2].date, range[1].date)

\* body is [computed, value]: the array groupBy returned, or `false` when
\* the body was not computed; rangeBody is an optional text
templateIssueBody(body, rangeBody) ==
    (IF body.computed /\ Len(body.value) > 0
     THEN join(body.value, <<"\n">>)
     ELSE IF rangeBody # Null /\ rangeBody # Some(<<>>)
          THEN rangeBody[1]
          ELSE <<"*No changelog for this release.*">>) \o <<"\n">>

\* the .then callback of getIssueBlocks: [threw, error, value]
issueBlocks(options, issues, releaseRanges) ==
    LET filteredIssues(range) ==
            SelectSeq(issues, LAMBDA issue : filterBlockIssue(options, range, issue))
        recompute(range) == bodyOf(range[1]) = Null \/ bodyOf(range[1]) = Some(<<>>)
                              \/ options.override
        grouped(range) == groupBy(options, filteredIssues(range))
        failing == {i \in 1..Len(releaseRanges) :
                       recompute(releaseRanges[i]) /\ grouped(releaseRanges[i]).threw}
        block(range) ==
            [id           |-> range[1].id,
             release      |-> range[1].name,
             name         |-> options.prefix \o range[1].name,
             published_at |-> range[1].date,
             body         |-> templateIssueBody(
                                 IF recompute(range)
                                 THEN [computed |-> TRUE, value |-> grouped(range).value]
                                 ELSE [computed |-> FALSE, value |-> <<>>],
                                 bodyOf(range[1]))]
    IN  IF failing # {}
        THEN [threw |-> TRUE,
              error |-> grouped(releaseRanges[CHOOSE i \in failing : \A j \in failing : i <= j]).error,
              value |-> <<>>]
        ELSE [threw |-> FALSE, error |-> "",
              value |-> [i \in 1..Len(releaseRanges) |-> block(releaseRanges[i])]]

\* the issues gren.issues.listIssues({state: 'closed', since}) answers with
listIssues(issues, since) == SelectSeq(issues, LAMBDA issue : issue.closed_at >= since)

(***************************************************************************)
(* Changelog                                                               *)
(***************************************************************************)
\* utils.formatDate(new Date(date))
formatDate(date) == <<"day " \o ToString(date)>>

templateReleases(releases) ==
    join([i \in 1..Len(releases) |->
            generate([release |-> releases[i].name,
                      date    |-> formatDate(releases[i].published_at),
                      body    |-> releases[i].body], template.release)],
         template.releaseSeparator)

\* checkChangelogFile: the promise it returns is always a resolved one; the
\* rejected promise it creates when the file exists is handed to nobody
checkChangelogFile(options, file) ==
    [returned |-> "resolved", floating |-> file.exists /\ ~options.override]

(***************************************************************************)
(* Parts of the state a specification does not use                         *)
(***************************************************************************)
noRepo == [tags |-> <<>>, releases |-> <<>>, commits |-> <<>>, issues |-> <<>>]

NoRun ==
    /\ command = "none"
    /\ pc = "none"
    /\ outcome = [state |-> "pending", error |-> ""]
    /\ repo = noRepo
    /\ fs = [exists |-> FALSE, written |-> Null]
    /\ unhandled = FALSE
    /\ pending = {}
    /\ tagDates = <<>>
    /\ rangeList = <<>>
    /\ blockList = <<>>
    /\ results = <<>>

NoSync ==
    /\ handed = <<>>
    /\ skipped = <<>>
    /\ apiLog = <<>>

(***************************************************************************)
(* Specification of createReleaseRanges over bounded inputs                *)
(***************************************************************************)
\* the input is a list of points with distinct tag names; each has the id of
\* a release or none, and a commit date
InitRanges ==
    /\ opts = defaults
    /\ \E names \in DistinctSeqs(TagNames, MaxPoints) :
         \E ids \in [1..Len(names) -> {Null, Some(5)}] :
            \E dates \in [1..Len(names) -> 1..MaxDate] :
               arg = [i \in 1..Len(names) |->
                         [id |-> ids[i], name |-> Some(names[i]), date |-> dates[i]]]
    /\ ret = <<>>
    /\ upc = "called"
    /\ NoRun /\ NoSync

CallCreateReleaseRanges ==
    /\ upc = "called"
    /\ ret' = createReleaseRanges(arg)
    /\ upc' = "returned"
    /\ UNCHANGED <<opts, arg, runVars, syncVars>>

NextRanges == CallCreateReleaseRanges

SpecRanges == InitRanges /\ [][NextRanges]_vars

\* the points of a list of ranges, read along the sliding window
rangeChain(ranges) ==
    [i \in 1..(Len(ranges) + 1) |->
        IF i <= Len(ranges) THEN ranges[i][1] ELSE ranges[Len(ranges)][2]]

\* C3: for n >= 2 dated points createReleaseRanges returns exactly n-1
\* ranges; each is a pair whose first point is not older than its second,
\* consecutive ranges share an endpoint, and the points read along the
\* window are exactly the input points (no synthetic point is added).
C3_RangesOfManyPoints ==
    (upc = "returned" /\ Len(arg) >= 2) =>
        /\ Len(ret) = Len(arg) - 1
        /\ \A i \in 1..Len(ret) :
              /\ Len(ret[i]) = 2
              /\ ret[i][1].date >= ret[i][2].date
        /\ \A i \in 1..(Len(ret) - 1) : ret[i][2] = ret[i + 1][1]
        /\ Range(rangeChain(ret)) = Range(arg)
        /\ \A i \in 1..Len(ret) : \A k \in 1..2 : ret[i][k] # syntheticPoint

\* three points given oldest-first come back as two ranges, newest first
C3_Witness ==
    /\ upc = "returned"
    /\ Len(arg) = 3
    /\ arg[1].date < arg[2].date /\ arg[2].date < arg[3].date
    /\ Len(ret) = 2
    /\ ret[1] = <<arg[3], arg[2]>>
    /\ ret[2] = <<arg[2], arg[1]>>

\* C4: for exactly one dated point createReleaseRanges returns one range
\* from that point to the synthetic point (date epoch-zero, id 0), and a
\* point that is not an input point appears in the ranges if and only if
\* the input has exactly one point.
C4_SinglePointRange ==
    upc = "returned" =>
        /\ Len(arg) = 1 =>
              /\ Len(ret) = 1
              /\ Len(ret[1]) = 2
              /\ ret[1][1] = arg[1]
              /\ ret[1][2].date = 0
              /\ ret[1][2].id = Some(0)
        /\ (\E i \in 1..Len(ret) : \E k \in 1..Len(ret[i]) : ret[i][k] \notin Range(arg))
              <=> Len(arg) = 1

C4_Witness ==
    /\ upc = "returned"
    /\ Len(arg) = 1
    /\ arg[1].id = Some(5)
    /\ ret = << <<arg[1], [id |-> Some(0), name |-> Null, date |-> 0]>> >>

(***************************************************************************)
(* Specification of generateCommitsBody over bounded inputs                *)
(***************************************************************************)
MaxMessages == 3

MessagePool == {
    <<"f", "i", "x">>,
    <<"m", "e", "r", "g", "e", " ", "b">>,
    <<"M", "E", "R", "G", "E">>,
    <<"m", "e", "r">>
}

IncludeModes == {"commits", "merges", "all", "both"}

InitCommits ==
    /\ opts \in {[defaults EXCEPT !.includeMessages = m] : m \in IncludeModes}
    /\ arg \in SeqsUpTo({Some(m) : m \in MessagePool}, MaxMessages)
    /\ ret = <<>>
    /\ upc = "called"
    /\ NoRun /\ NoSync

CallGenerateCommitsBody ==
    /\ upc = "called"
    /\ ret' = [eligible |-> eligibleMessages(arg), body |-> generateCommitsBody(opts, arg)]
    /\ upc' = "returned"
    /\ UNCHANGED <<opts, arg, runVars, syncVars>>

NextCommits == CallGenerateCommitsBody

SpecCommits == InitCommits /\ [][NextCommits]_vars

\* C6 as stated: the eligible messages of a range holding N messages are
\* its first N-1 messages, and a single commit is left out of the body.
C6_LastMessageAlwaysDropped ==
    upc = "returned" =>
        /\ ret.eligible = SubSeq(arg, 1, Len(arg) - 1)
        /\ Len(arg) = 1 => ret.body = <<>>

\* C6 amended: with N >= 2 messages the eligible messages are the first
\* N-1; a single message is itself eligible (the null pushed after it is
\* what is dropped) and is rendered when the include mode accepts it; no
\* message gives no eligible message.
C6_EligibleMessages ==
    upc = "returned" =>
        /\ Len(arg) >= 2 => ret.eligible = SubSeq(arg, 1, Len(arg) - 1)
        /\ Len(arg) = 1 =>
              /\ ret.eligible = arg
              /\ includeMessage(opts.includeMessages, arg[1][1])
                    => ret.body = <<"- ", arg[1][1]>>
        /\ Len(arg) = 0 => ret.eligible = <<>> /\ ret.body = <<>>

C6_Witness ==
    /\ upc = "returned"
    /\ opts.includeMessages = "commits"
    /\ arg = << Some(<<"f", "i", "x">>) >>
    /\ ret.body = <<"- ", <<"f", "i", "x">>>>

(***************************************************************************)
(* Specification of filterIssue over bounded inputs                        *)
(***************************************************************************)
MaxLabels == 2

LabelNames == {"bug", "docs", "wontfix", "length"}

IssuePool == {[number |-> 1, title |-> "t", html_url |-> "u", pull_request |-> pr,
               labels |-> ls, milestone |-> m, closed_at |-> 1] :
                 pr \in BOOLEAN, ls \in DistinctSeqs(LabelNames, MaxLabels),
                 m \in {Null, Some(<<"Release ", "v1">>)}}

InitFilter ==
    /\ opts \in {[defaults EXCEPT !.ignoreIssuesWith = ig, !.onlyMilestones = om, !.dataSource = ds] :
                    ig \in {<<>>, <<"wontfix">>, <<"wontfix", "docs">>},
                    om \in BOOLEAN,
                    ds \in {"issues", "commits", "milestones"}}
    /\ arg \in IssuePool
    /\ ret = <<>>
    /\ upc = "called"
    /\ NoRun /\ NoSync

CallFilterIssue ==
    /\ upc = "called"
    /\ ret' = filterIssue(opts, arg)
    /\ upc' = "returned"
    /\ UNCHANGED <<opts, arg, runVars, syncVars>>

NextFilter == CallFilterIssue

SpecFilter == InitFilter /\ [][NextFilter]_vars

\* C7: filterIssue keeps an issue if and only if it is not a pull request,
\* carries no label of the ignore-list, and does not lack a milestone while
\* the data source is 'milestones' or onlyMilestones is set.
C7_FilterIssue ==
    upc = "returned" =>
        (ret <=> /\ ~arg.pull_request
                 /\ Range(arg.labels) \cap Range(opts.ignoreIssuesWith) = {}
                 /\ ~(arg.milestone = Null
                        /\ (opts.dataSource = "milestones" \/ opts.onlyMilestones)))

(***************************************************************************)
(* Specification of groupBy over bounded inputs                            *)
(***************************************************************************)
MaxIssues == 2

GroupByPool == {
    [kind |-> "false", mapping |-> <<>>],
    [kind |-> "label", mapping |-> <<>>],
    [kind |-> "invalid", mapping |-> <<>>],
    [kind |-> "object", mapping |-> <<[group |-> "Bugs", labels |-> <<"bug">>],
                                      [group |-> "Others", labels |-> <<"...">>]>>],
    [kind |-> "object", mapping |-> <<[group |-> "Docs", labels |-> <<"docs">>],
                                      [group |-> "Bugs", labels |-> <<"bug", "wontfix">>]>>],
    [kind |-> "object", mapping |-> <<[group |-> "Rest", labels |-> <<"docs", "...">>],
                                      [group |-> "Bugs", labels |-> <<"bug">>]>>]
}

\* issues numbered by their position in the listing
IssueLists ==
    {[i \in 1..Len(ls) |->
        [number |-> i, title |-> "t", html_url |-> "u", pull_request |-> FALSE,
         labels |-> ls[i], milestone |-> Null, closed_at |-> 1]] :
        ls \in SeqsUpTo(DistinctSeqs(LabelNames, MaxLabels), MaxIssues)}

InitGroup ==
    /\ opts \in {[defaults EXCEPT !.groupBy = g, !.noLabel = n] :
                    g \in GroupByPool, n \in {Null, Some("misc")}}
    /\ arg \in IssueLists
    /\ ret = <<>>
    /\ upc = "called"
    /\ NoRun /\ NoSync

CallGroupBy ==
    /\ upc = "called"
    /\ ret' = groupBy(opts, arg)
    /\ upc' = "returned"
    /\ UNCHANGED <<opts, arg, runVars, syncVars>>

NextGroup == CallGroupBy

SpecGroup == InitGroup /\ [][NextGroup]_vars

\* the issue is among the items of the group of that name
inSection(groups, name, issue) ==
    \E k \in 1..Len(groups) :
        /\ groups[k].group = name
        /\ templateIssue(opts, issue) \in Range(groups[k].items)

\* C8: with a custom mapping an issue is in a group iff its labels
\* intersect the labels the group names or, when the group holds the
\* catch-all token, iff its labels intersect none of the labels named in any
\* group; groups without issues are left out and the sections follow the
\* order of the mapping.
C8_CustomGroups ==
    (upc = "returned" /\ opts.groupBy.kind = "object") =>
        LET mapping == opts.groupBy.mapping
            named == UNION {Range(mapping[g].labels) : g \in 1..Len(mapping)} \ {"..."}
            labelsOf(issue) == Range(pushNoLabel(opts, issue).labels)
        IN  /\ ~ret.threw
            /\ \A g \in 1..Len(mapping) : \A i \in 1..Len(arg) :
                  inSection(ret.groups, mapping[g].group, arg[i]) <=>
                      \/ labelsOf(arg[i]) \cap (Range(mapping[g].labels) \ {"..."}) # {}
                      \/ /\ "..." \in Range(mapping[g].labels)
                         /\ labelsOf(arg[i]) \cap named = {}
            /\ \A k \in 1..Len(ret.groups) : ret.groups[k].items # <<>>
            /\ \A k, l \in 1..Len(ret.groups) :
                  k < l => \E g, h \in 1..Len(mapping) :
                              /\ g < h
                              /\ mapping[g].group = ret.groups[k].group
                              /\ mapping[h].group = ret.groups[l].group

\* the sections of ret.groups that hold the rendering of the issue
sectionsOf(groups, issue) ==
    {k \in 1..Len(groups) : templateIssue(opts, issue) \in Range(groups[k].items)}

\* C13: with groupBy = "label" every input issue is rendered in exactly one
\* section, the one named after its first label; an issue without labels
\* counts with the noLabel placeholder as its label.
C13_GroupByFirstLabel ==
    (upc = "returned" /\ opts.groupBy.kind = "label") =>
        /\ ~ret.threw
        /\ \A i \in 1..Len(arg) :
              LET labels == pushNoLabel(opts, arg[i]).labels
              IN  /\ Cardinality(sectionsOf(ret.groups, arg[i])) = 1
                  /\ labels # <<>> =>
                        \A k \in sectionsOf(ret.groups, arg[i]) : ret.groups[k].group = labels[1]
        /\ Len(ret.value) = Len(ret.groups)

(***************************************************************************)
(* The run of a command: release() and changelog()                         *)
(***************************************************************************)
settled(state, error) == [state |-> state, error |-> error]

\* the tags getLastTags resolved with (a function of the API answers)
filteredTags == getLastTags(opts, repo.tags, repo.releases)

\* the dated points once every member of getTagDates has resolved
releaseDatesOf(dates) == [i \in 1..Len(dates) |-> dates[i][1]]

\* a join that keeps the values in the order in which the members resolve
resolveMember_inCompletionOrder(members, i, value) ==
    LET first == CHOOSE k \in 1..Len(members) :
                     members[k] = Null /\ \A j \in 1..(k - 1) : members[j] # Null
    IN  [members EXCEPT ![first] = Some(value)]

\* Promise.all: the value a member resolves with is kept at the member's position
resolveMember(members, i, value) == [members EXCEPT ![i] = Some(value)]

\* release(): getReleaseBlocks starts with getListReleases
Release ==
    /\ pc = "start" /\ command = "release"
    /\ apiLog' = Append(apiLog, [op |-> "listReleases"])
    /\ pc' = "listReleases"
    /\ UNCHANGED <<opts, unitVars, command, outcome, repo, fs, unhandled, pending, tagDates,
                   rangeList, blockList, results, handed, skipped>>

\* changelog(): checkChangelogFile, then getReleaseBlocks or getListReleases;
\* both start with the listReleases call
Changelog ==
    /\ pc = "start" /\ command = "changelog"
    /\ unhandled' = checkChangelogFile(opts, fs).floating
    /\ apiLog' = Append(apiLog, [op |-> "listReleases"])
    /\ pc' = "listReleases"
    /\ UNCHANGED <<opts, unitVars, command, outcome, repo, fs, pending, tagDates,
                   rangeList, blockList, results, handed, skipped>>

\* the runtime terminates the process for the rejection nobody handles once
\* the first turn of the event loop is over (runtimes that only warn go on)
UnhandledRejection ==
    /\ unhandled /\ pc = "listReleases"
    /\ unhandled' = FALSE
    /\ pc' = "exit"
    /\ outcome' = settled("crashed", "ChangelogAlreadyExists")
    /\ UNCHANGED <<opts, unitVars, command, repo, fs, pending, tagDates, rangeList,
                   blockList, results, syncVars>>

\* getListReleases resolves; changelog without generate goes on with the
\* releases, getReleaseBlocks goes on with getLastTags
ListReleasesRespond ==
    /\ pc = "listReleases"
    /\ unhandled' = FALSE
    /\ IF command = "changelog" /\ ~opts.generate
       THEN /\ results' = repo.releases
            /\ pc' = "results"
            /\ UNCHANGED apiLog
       ELSE /\ apiLog' = Append(apiLog, [op |-> "listTags"])
            /\ pc' = "listTags"
            /\ UNCHANGED results
    /\ UNCHANGED <<opts, unitVars, command, outcome, repo, fs, pending, tagDates, rangeList,
                   blockList, handed, skipped>>

\* getLastTags resolves; getTagDates asks for the commit of every tag
ListTagsRespond ==
    /\ pc = "listTags"
    /\ tagDates' = [i \in 1..Len(filteredTags) |-> Null]
    /\ pending' = 1..Len(filteredTags)
    /\ apiLog' = apiLog \o [i \in 1..Len(filteredTags) |->
                                [op |-> "getCommit", sha |-> filteredTags[i].tag.commit.sha]]
    /\ pc' = "getCommit"
    /\ UNCHANGED <<opts, unitVars, command, outcome, repo, fs, unhandled, rangeList, blockList,
                   results, handed, skipped>>

\* one member of Promise.all(getTagDates) resolves
GetCommitRespond(i) ==
    /\ pc = "getCommit" /\ i \in pending
    /\ tagDates' = resolveMember(tagDates, i,
                        tagDate(filteredTags[i],
                                [date |-> repo.commitDate[filteredTags[i].tag.commit.sha]]))
    /\ pending' = pending \ {i}
    /\ UNCHANGED <<opts, unitVars, command, pc, outcome, repo, fs, unhandled, rangeList,
                   blockList, results, syncVars>>

\* Promise.all(getTagDates) resolved: createReleaseRanges, then the data source
TagDatesJoined ==
    /\ pc = "getCommit" /\ pending = {}
    /\ LET releaseRanges == createReleaseRanges(releaseDatesOf(tagDates))
       IN  /\ rangeList' = releaseRanges
           /\ IF opts.dataSource = "commits"
              THEN \* getCommitBlocks: one listCommits call per range
                   /\ blockList' = [i \in 1..Len(releaseRanges) |-> Null]
                   /\ pending' = 1..Len(releaseRanges)
                   /\ apiLog' = apiLog \o [i \in 1..Len(releaseRanges) |->
                                    [op |-> "listCommits", since |-> releaseRanges[i][2].date,
                                     until |-> releaseRanges[i][1].date]]
                   /\ pc' = "listCommits"
                   /\ UNCHANGED outcome
              ELSE \* getIssueBlocks: getClosedIssues reads the last range
                   IF releaseRanges = <<>>
                   THEN /\ pc' = "done"
                        /\ outcome' = settled("rejected", "TypeError")
                        /\ UNCHANGED <<blockList, pending, apiLog>>
                   ELSE /\ apiLog' = Append(apiLog,
                               [op |-> "listIssues",
                                since |-> releaseRanges[Len(releaseRanges)][2].date])
                        /\ pc' = "listIssues"
                        /\ UNCHANGED <<blockList, pending, outcome>>
    /\ UNCHANGED <<opts, unitVars, command, repo, fs, unhandled, tagDates, results, handed,
                   skipped>>

\* one member of the Promise.all of getCommitBlocks resolves with its block
ListCommitsRespond(i) ==
    /\ pc = "listCommits" /\ i \in pending
    /\ blockList' = resolveMember(blockList, i,
                         commitBlock(opts, rangeList[i],
                                     listCommits(repo.commits, rangeList[i][2].date,
                                                 rangeList[i][1].date)))
    /\ pending' = pending \ {i}
    /\ UNCHANGED <<opts, unitVars, command, pc, outcome, repo, fs, unhandled, tagDates,
                   rangeList, results, syncVars>>

\* the Promise.all of getCommitBlocks resolved: getReleaseBlocks resolves
CommitBlocksJoined ==
    /\ pc = "listCommits" /\ pending = {}
    /\ results' = [i \in 1..Len(blockList) |-> blockList[i][1]]
    /\ pc' = "results"
    /\ UNCHANGED <<opts, unitVars, command, outcome, repo, fs, unhandled, pending, tagDates,
                   rangeList, blockList, syncVars>>

\* getClosedIssues resolves: filterIssue, then the blocks of getIssueBlocks
ListIssuesRespond ==
    /\ pc = "listIssues"
    /\ LET answered == listIssues(repo.issues, rangeList[Len(rangeList)][2].date)
           filteredIssues == SelectSeq(answered, LAMBDA issue : filterIssue(opts, issue))
           built == issueBlocks(opts, filteredIssues, rangeList)
       IN  IF built.threw
           THEN /\ pc' = "done"
                /\ outcome' = settled("rejected", built.error)
                /\ UNCHANGED <<blockList, results>>
           ELSE /\ blockList' = [i \in 1..Len(built.value) |-> Some(built.value[i])]
                /\ results' = built.value
                /\ pc' = "results"
                /\ UNCHANGED outcome
    /\ UNCHANGED <<opts, unitVars, command, repo, fs, unhandled, pending, tagDates, rangeList,
                   syncVars>>

\* an API call in flight fails: the rejection reaches the end of the chain
ApiFail ==
    /\ \/ pc \in {"listReleases", "listTags", "listIssues"}
       \/ pc \in {"getCommit", "listCommits"} /\ pending # {}
    /\ pc' = "done"
    /\ outcome' = settled("rejected", "ExternalApiError")
    /\ unhandled' = FALSE
    /\ UNCHANGED <<opts, unitVars, command, repo, fs, pending, tagDates, rangeList, blockList,
                   results, syncVars>>

\* the .then callback of release(): `throw blocks` comes first, so the
\* reduce over prepareRelease below it never runs
ReleaseThen ==
    /\ pc = "results" /\ command = "release"
    /\ pc' = "done"
    /\ outcome' = settled("rejected", "blocks")
    /\ UNCHANGED <<opts, unitVars, command, repo, fs, unhandled, pending, tagDates, rangeList,
                   blockList, results, syncVars>>

\* changelog(): the check for an empty list of releases
ChangelogCheck ==
    /\ pc = "results" /\ command = "changelog"
    /\ IF Len(results) = 0
       THEN /\ pc' = "done"
            /\ outcome' = settled("rejected", "NoReleasesFound")
       ELSE /\ pc' = "checked"
            /\ UNCHANGED outcome
    /\ UNCHANGED <<opts, unitVars, command, repo, fs, unhandled, pending, tagDates, rangeList,
                   blockList, results, syncVars>>

\* changelog(): createChangelog writes the file
ChangelogWrite ==
    /\ pc = "checked"
    /\ fs' = [exists |-> TRUE,
              written |-> Some(template.changelogTitle \o templateReleases(results))]
    /\ pc' = "done"
    /\ outcome' = settled("resolved", "")
    /\ UNCHANGED <<opts, unitVars, command, repo, unhandled, pending, tagDates, rangeList,
                   blockList, results, syncVars>>

(***************************************************************************)
(* The repositories and options of the runs                                *)
(***************************************************************************)
\* the tags of a repository with n tags, newest first; tag k was committed at date k
tagsOf(n) == [i \in 1..n |-> [name |-> TagName(n + 1 - i), commit |-> [sha |-> n + 1 - i]]]

\* releases exist for the tags whose number is in S, newest first
RECURSIVE releasesOf(_, _)
releasesOf(n, S) ==
    IF n = 0 THEN <<>>
    ELSE (IF n \in S
          THEN <<[id |-> 10 + n, tag_name |-> TagName(n), name |-> <<TagName(n)>>,
                  body |-> <<"notes of ", TagName(n)>>, published_at |-> n]>>
          ELSE <<>>) \o releasesOf(n - 1, S)

\* two commits at the date of every tag, newest first
RECURSIVE commitsOf(_)
commitsOf(n) ==
    IF n = 0 THEN <<>>
    ELSE <<[date |-> n, message |-> <<"f", "i", "x">>],
           [date |-> n, message |-> <<"m", "e", "r", "g", "e", " ", "b">>]>> \o commitsOf(n - 1)

\* one issue closed at the date of every tag
issuesOf(n) ==
    [i \in 1..n |->
        [number |-> i, title |-> "t", html_url |-> "u", pull_request |-> FALSE,
         labels |-> IF i % 2 = 1 THEN <<"bug">> ELSE <<>>,
         milestone |-> IF i % 2 = 1 THEN Some(<<"Release ", TagName(i)>>) ELSE Null,
         closed_at |-> i]]

Repos ==
    UNION {{[tags |-> tagsOf(n), commitDate |-> [k \in 1..n |-> k],
             releases |-> releasesOf(n, S), commits |-> c, issues |-> i] :
               S \in SUBSET (1..n), c \in {<<>>, commitsOf(n)}, i \in {<<>>, issuesOf(n)}} :
           n \in 0..MaxTags}

RunOptions ==
    {[defaults EXCEPT !.override = o, !.generate = g, !.dataSource = ds, !.tags = t,
                      !.groupBy = [kind |-> gb, mapping |-> <<>>]] :
        o \in BOOLEAN, g \in BOOLEAN, ds \in {"issues", "commits", "milestones"},
        t \in {<<>>, <<"all">>}, gb \in {"false", "label"}}

\* the runs with and without a prefix for the names of the releases
Prefixes == {<<>>, <<"release ">>}

Init ==
    /\ \E o \in RunOptions : \E p \in Prefixes : opts = [o EXCEPT !.prefix = p]
    /\ command \in {"release", "changelog"}
    /\ command = "release" => ~opts.generate
    /\ pc = "start"
    /\ outcome = settled("pending", "")
    /\ repo \in Repos
    /\ fs \in {[exists |-> e, written |-> Null] : e \in BOOLEAN}
    /\ unhandled = FALSE
    /\ pending = {}
    /\ tagDates = <<>>
    /\ rangeList = <<>>
    /\ blockList = <<>>
    /\ results = <<>>
    /\ arg = <<>> /\ ret = <<>> /\ upc = "none"
    /\ NoSync

Next ==
    \/ Release
    \/ Changelog
    \/ UnhandledRejection
    \/ ListReleasesRespond
    \/ ListTagsRespond
    \/ \E i \in 1..MaxTags : GetCommitRespond(i)
    \/ TagDatesJoined
    \/ \E i \in 1..MaxTags : ListCommitsRespond(i)
    \/ CommitBlocksJoined
    \/ ListIssuesRespond
    \/ ApiFail
    \/ ReleaseThen
    \/ ChangelogCheck
    \/ ChangelogWrite

Spec == Init /\ [][Next]_vars

\* the run builds blocks (getReleaseBlocks) rather than listing the releases
synthesizes == command = "release" \/ (command = "changelog" /\ opts.generate)

\* C2: when release() runs and block synthesis succeeds with blocks
\* B1..Bn, every block is handed to prepareRelease exactly once, in array
\* order (one create/update call at a time).
C2_BlocksHandedInOrder ==
    (command = "release" /\ pc = "done" /\ results # <<>>) => handed = results

\* C5: with zero dated points createReleaseRanges returns the empty list
\* and block synthesis completes with zero blocks, without failing, in
\* every data source mode.
C5_ZeroPoints ==
    (/\ synthesizes
     /\ tagDates = <<>>
     /\ pc \in {"listCommits", "listIssues", "results", "checked", "done"}
     /\ outcome.error # "ExternalApiError")
        => /\ rangeList = <<>>
           /\ outcome.error # "TypeError"
           /\ pc \in {"results", "checked", "done"} => results = <<>>

\* the release the API lists for a tag name, as a sequence of at most one
releaseOfTag(name) == SelectSeq(repo.releases, LAMBDA r : r.tag_name = name)

\* C9: in issue/milestone mode, when the tag of a range has a release with
\* a non-empty body and override is not set, the block carries that body
\* (the grouped issues are not rendered into it).
C9_OldBodyKept ==
    (/\ synthesizes
     /\ opts.dataSource \in {"issues", "milestones"}
     /\ ~opts.override
     /\ pc \in {"results", "checked", "done"})
        => \A k \in 1..Len(results) :
              LET old == releaseOfTag(results[k].release[1])
              IN  (old # <<>> /\ old[1].body # <<>>)
                     => results[k].body \in {old[1].body, old[1].body \o <<"\n">>}

\* C10: in the changelog flow, while the changelog file exists and override
\* is not set, no step of the run writes the file.
C10_ExistingChangelogKept ==
    [][(command = "changelog" /\ fs.exists /\ ~opts.override) => fs' = fs]_vars

\* the id of the release the API lists for a tag name, if there is one
releaseIdOfTag(name) ==
    IF releaseOfTag(name) = <<>> THEN Null ELSE Some(releaseOfTag(name)[1].id)

\* C12: block synthesis resolves with exactly one block per range, block k
\* built from range k (name = prefix + name of the newer point, id = the
\* release id of that point, published_at = its date) whatever the order in
\* which the per-range fetches complete, and nothing is assembled while a
\* fetch is still in flight.
C12_OneBlockPerRange ==
    /\ (synthesizes /\ pc \in {"results", "checked"}) =>
          /\ Len(results) = Len(rangeList)
          /\ \A k \in 1..Len(results) :
                /\ results[k].name = opts.prefix \o rangeList[k][1].name
                /\ results[k].release = rangeList[k][1].name
                /\ results[k].id = rangeList[k][1].id
                /\ results[k].id = releaseIdOfTag(rangeList[k][1].name[1])
                /\ results[k].published_at = rangeList[k][1].date
    /\ (pc = "listCommits" /\ pending # {}) => results = <<>>
    /\ pc = "listCommits" =>
          /\ Len(blockList) = Len(rangeList)
          /\ \A k \in 1..Len(blockList) : (blockList[k] = Null) <=> (k \in pending)

\* commit mode, three tags: two blocks, each named after its own range
C12_Witness ==
    /\ pc = "results"
    /\ opts.dataSource = "commits"
    /\ opts.prefix = <<"release ">>
    /\ Len(rangeList) = 2
    /\ Len(results) = 2
    /\ results[1].name = <<"release ", "v3">>
    /\ results[2].name = <<"release ", "v2">>
    /\ results[1].id = Null
    /\ results[2].id = Some(12)

(***************************************************************************)
(* Release Synchronizer: prepareRelease on one block                       *)
(***************************************************************************)
\* the options of the release built by prepareRelease
releaseOptions(options, block) ==
    [tag_name   |-> block.release,
     name       |-> block.name,
     body       |-> block.body,
     draft      |-> options.draft,
     prerelease |-> options.prerelease]

\* a decision that updates every block that has a release id
prepareRelease_ignoringOverride(options, block) ==
    IF Truthy(block.id) THEN "update" ELSE "create"

\* what prepareRelease does with a block
prepareRelease(options, block) ==
    IF Truthy(block.id)
    THEN IF ~options.override THEN "skip" ELSE "update"
    ELSE "create"

CallPrepareRelease ==
    /\ upc = "called"
    /\ handed' = Append(handed, arg)
    /\ LET decision == prepareRelease(opts, arg)
       IN  CASE decision = "skip" ->
                  /\ skipped' = Append(skipped, arg.release)
                  /\ ret' = [state |-> "resolved", value |-> Null]
                  /\ upc' = "returned"
                  /\ UNCHANGED apiLog
             [] decision = "update" ->
                  \* editRelease
                  /\ apiLog' = Append(apiLog, [op |-> "updateRelease", id |-> arg.id[1],
                                               options |-> releaseOptions(opts, arg)])
                  /\ upc' = "awaiting"
                  /\ UNCHANGED <<skipped, ret>>
             [] OTHER ->
                  \* createRelease
                  /\ apiLog' = Append(apiLog, [op |-> "createRelease", id |-> 0,
                                               options |-> releaseOptions(opts, arg)])
                  /\ upc' = "awaiting"
                  /\ UNCHANGED <<skipped, ret>>
    /\ UNCHANGED <<opts, arg, runVars>>

\* the API answers updateRelease / createRelease with the release
ReleaseCallRespond ==
    /\ upc = "awaiting"
    /\ ret' = [state |-> "resolved",
               value |-> Some([name |-> apiLog[Len(apiLog)].options.name,
                               body |-> apiLog[Len(apiLog)].options.body])]
    /\ upc' = "returned"
    /\ UNCHANGED <<opts, arg, runVars, syncVars>>

\* the API call fails and prepareRelease's promise rejects
ReleaseCallFail ==
    /\ upc = "awaiting"
    /\ ret' = [state |-> "rejected", value |-> Null]
    /\ upc' = "returned"
    /\ UNCHANGED <<opts, arg, runVars, syncVars>>

\* the blocks that block synthesis can build: the id is null or the id of a release
BlockPool ==
    {[id |-> i, release |-> Some(n), name |-> <<n>>, published_at |-> d, body |-> <<b, "\n">>] :
        i \in {Null, Some(5), Some(11)}, n \in TagNames, d \in 1..MaxDate,
        b \in {"- fix", "*No changelog for this release.*"}}

InitPrepare ==
    /\ opts \in {[defaults EXCEPT !.override = o, !.draft = d, !.prerelease = p] :
                    o \in BOOLEAN, d \in BOOLEAN, p \in BOOLEAN}
    /\ arg \in BlockPool
    /\ ret = <<>>
    /\ upc = "called"
    /\ NoRun /\ NoSync

NextPrepare == CallPrepareRelease \/ ReleaseCallRespond \/ ReleaseCallFail

SpecPrepare == InitPrepare /\ [][NextPrepare]_vars

callsOf(op) == SelectSeq(apiLog, LAMBDA c : c.op = op)

\* C1: once prepareRelease has run on a block: without a release id there
\* is exactly one createRelease call and no updateRelease call; with release
\* id X and override on there is exactly one updateRelease(X, ...) call and
\* no createRelease call; with a release id and override off there is no
\* API call, the skip is recorded and the promise is resolved.
C1_PrepareReleaseDecision ==
    upc \in {"awaiting", "returned"} =>
        /\ arg.id = Null =>
              /\ Len(callsOf("createRelease")) = 1
              /\ callsOf("createRelease")[1].options.tag_name = arg.release
              /\ callsOf("updateRelease") = <<>>
        /\ (arg.id # Null /\ opts.override) =>
              /\ Len(callsOf("updateRelease")) = 1
              /\ callsOf("updateRelease")[1].id = arg.id[1]
              /\ callsOf("createRelease") = <<>>
        /\ (arg.id # Null /\ ~opts.override) =>
              /\ apiLog = <<>>
              /\ skipped = <<arg.release>>
              /\ upc = "returned"
              /\ ret.state = "resolved"

\* a block with release id 5 and override off was skipped
C1_Witness ==
    /\ upc = "returned"
    /\ arg.id = Some(5)
    /\ ~opts.override
    /\ apiLog = <<>>
    /\ skipped = <<arg.release>>
    /\ ret.state = "resolved"

(***************************************************************************)
(* Specification of getSelectedTags / getLastTags over bounded inputs      *)
(***************************************************************************)
MaxRequested == 3

\* what --tags may name: the tags of the repository, a name that is no tag, "all"
RequestNames == {TagName(k) : k \in 1..MaxTags} \cup {"v0", "all"}

\* arg is the answer of listTags and the releases; opts.tags is the request
InitTags ==
    /\ \E t \in SeqsUpTo(RequestNames, MaxRequested) : opts = [defaults EXCEPT !.tags = t]
    /\ \E n \in 0..MaxTags : \E S \in SUBSET (1..n) :
          arg = [tags |-> tagsOf(n), releases |-> releasesOf(n, S)]
    /\ ret = <<>>
    /\ upc = "called"
    /\ NoRun /\ NoSync

\* the .then callback of getLastTags
CallGetLastTags ==
    /\ upc = "called"
    /\ ret' = [selected     |-> getSelectedTags(opts.tags, arg.tags),
               filteredTags |-> getLastTags(opts, arg.tags, arg.releases)]
    /\ upc' = "returned"
    /\ UNCHANGED <<opts, arg, runVars, syncVars>>

NextTags == CallGetLastTags

SpecTags == InitTags /\ [][NextTags]_vars

\* the 1-based positions of the tags of that name in the listing
positionsOf(tags, name) == {i \in 1..Len(tags) : tags[i].name = name}

\* C11: for a non-empty request without "all", getSelectedTags returns at
\* most 2 tags of allTags, in allTags order, each of them requested or the
\* immediate successor of the single requested tag; a single requested tag
\* found at index i with a successor gives exactly [allTags[i], allTags[i+1]].
\* With "all" every tag is returned; with an empty request getSelectedTags
\* returns false and getLastTags takes the two most recent tags.
C11_SelectedTags ==
    upc = "returned" =>
        LET request == opts.tags
            allTags == arg.tags
            chosen == [i \in 1..Len(ret.filteredTags) |-> ret.filteredTags[i].tag]
        IN  /\ (request # <<>> /\ "all" \notin Range(request)) =>
                  /\ ret.selected # Null
                  /\ chosen = ret.selected[1]
                  /\ Len(chosen) <= 2
                  /\ \A k \in 1..Len(chosen) : chosen[k] \in Range(allTags)
                  /\ \A k, l \in 1..Len(chosen) :
                        k < l => \E i, j \in 1..Len(allTags) :
                                    i < j /\ allTags[i] = chosen[k] /\ allTags[j] = chosen[l]
                  /\ \A k \in 1..Len(chosen) :
                        \/ chosen[k].name \in Range(request)
                        \/ /\ Len(request) = 1
                           /\ \E i \in positionsOf(allTags, request[1]) :
                                 i + 1 <= Len(allTags) /\ chosen[k] = allTags[i + 1]
                  /\ Len(request) = 1 =>
                        \A i \in positionsOf(allTags, request[1]) :
                            i + 1 <= Len(allTags) => chosen = <<allTags[i], allTags[i + 1]>>
            /\ "all" \in Range(request) =>
                  ret.selected = Some(allTags) /\ chosen = allTags
            /\ request = <<>> =>
                  ret.selected = Null /\ chosen = Slice(allTags, 0, 2)

\* the single requested tag v2 of [v3, v2, v1] comes back with its successor v1
C11_Witness ==
    /\ upc = "returned"
    /\ opts.tags = <<"v2">>
    /\ Len(arg.tags) = 3
    /\ ret.selected = Some(<<arg.tags[2], arg.tags[3]>>)
    /\ ret.filteredTags[2].tag.name = "v1"

====
